---------------------------- MODULE Spec2Model ----------------------------
(***************************************************************************)
(* A model of the D-Bus marshaling layer of dbus-native:                   *)
(*   src/src/writer.rs       DbusWriter, the aligned byte writer           *)
(*   src/src/type_system.rs  Serial, ObjectPath, Signature (DbusWrite)     *)
(*   src/src/message.rs      HeaderField, Header, Body, Message            *)
(*                                                                         *)
(* The sink is the sequence of bytes emitted so far.  Every writer         *)
(* operation is an operator from the sink before the call to a result      *)
(* record [out, ok, n, kind]: the sink after the call, whether the call    *)
(* returned Ok, the count carried by Ok, and the io::ErrorKind of an Err.   *)
(* Rust's `?` is the early return  IF ~r.ok THEN Err(r.out, r.kind).        *)
(***************************************************************************)
EXTENDS Integers, Sequences, FiniteSets, TLC

VARIABLES
    sink,       \* the bytes the sink holds
    cap,        \* how many bytes the sink accepts before its writes fail
    old,        \* the sink as it was before the last operation
    call,       \* the last operation and its arguments
    ret,        \* what the last operation returned
    written,    \* the caller's running total of the returned counts
    start,      \* the bytes_written the caller passed to its first call
    calls       \* writer operations called on this writer so far

vars == <<sink, cap, old, call, ret, written, start, calls>>

----------------------------------------------------------------------------
(* Bounds of the model. *)

\* Writer operations called in a row on one writer.
MaxCalls == 2
\* Largest bytes_written a caller passes to the first call on a writer.
MaxOffset == 8
\* Longest header_fields list of a Header.
MaxFields == 2
\* Longest slice handed to write_array.
MaxArray == 2
\* Longest Vec whose type code is taken.
MaxVec == 3
\* Most entries of a HashMap whose type code is taken.
MaxEntries == 2

\* A sink that never fails (a Vec<u8>, a Cursor over one).
NoLimit == 0 - 1

----------------------------------------------------------------------------
(* Bytes.  A sink element e >= 0 is the byte e.  An element e < 0 stands   *)
(* for a run of -e bytes of string content ('a'), so that a string longer  *)
(* than the maximum message size is a value the model can hold.            *)

ByteLen(e) == IF e < 0 THEN 0 - e ELSE 1

RECURSIVE DataLen(_)
DataLen(d) == IF d = <<>> THEN 0 ELSE ByteLen(Head(d)) + DataLen(Tail(d))

\* The first r bytes of d: what a sink with room for r bytes keeps of d.
RECURSIVE Take(_, _)
Take(d, r) ==
    IF d = <<>> \/ r <= 0 THEN <<>>
    ELSE IF ByteLen(Head(d)) <= r
         THEN <<Head(d)>> \o Take(Tail(d), r - ByteLen(Head(d)))
         ELSE <<0 - r>>

Pow256(i) == CASE i = 0 -> 1 [] i = 1 -> 256 [] i = 2 -> 65536 [] i = 3 -> 16777216

\* Byte i (0 = least significant) of the two's complement form of v.  The
\* values of the model lie in -2^31 .. 2^31-1, so bytes 4..7 of a 64-bit
\* value are its sign extension.
ByteOf(v, i) ==
    IF i < 4 THEN (v \div Pow256(i)) % 256
    ELSE IF v < 0 THEN 255 ELSE 0

\* byteorder's write_uN::<T1> / write_iN::<T1>: the width bytes of v, most
\* significant first for BigEndian, least significant first for LittleEndian.
EncodeInt(v, width, order) ==
    [i \in 1..width |->
        IF order = "BigEndian" THEN ByteOf(v, width - i) ELSE ByteOf(v, i - 1)]

----------------------------------------------------------------------------
(* Results. *)

Ok(out, n) == [out |-> out, ok |-> TRUE, n |-> n, kind |-> "none"]
Err(out, kind) == [out |-> out, ok |-> FALSE, n |-> 0, kind |-> kind]

\* `op?; Ok(n)`: the error of w, or Ok(n) on the sink w left.
Counted(w, n) == IF ~w.ok THEN Err(w.out, w.kind) ELSE Ok(w.out, n)

\* `bytes_written += op?;` where n0 is bytes_written before the statement
\* and w the result of op.
Sum(n0, w) == IF ~w.ok THEN Err(w.out, w.kind) ELSE Ok(w.out, n0 + w.n)

\* The sink's write_all: a sink with capacity keeps what fits and fails.
SinkWriteAll(s, d) ==
    IF cap = NoLimit \/ DataLen(s) + DataLen(d) <= cap
    THEN Ok(s \o d, DataLen(d))
    ELSE Err(s \o Take(d, cap - DataLen(s)), "WriteZero")

----------------------------------------------------------------------------
(* DbusWriter, src/src/writer.rs *)

write_u8(s, n) == Counted(SinkWriteAll(s, <<n>>), 1)

\* `bytes_written += self.write_u8(n)?;` after b, the sink and the running
\* total so far.
AddU8(b, n) == IF ~b.ok THEN b ELSE Sum(b.n, write_u8(b.out, n))

\* padding_length without the outer `% align_to`: an aligned offset gets a
\* whole boundary of padding.
padding_length_NoWrap(bytes_written, align_to) ==
    align_to - (bytes_written % align_to)

padding_length(bytes_written, align_to) ==
    (align_to - (bytes_written % align_to)) % align_to

\* The loop of write_padding: i more zero bytes, one `self.write_u8(0)?`
\* each.
RECURSIVE PaddingLoop(_, _)
PaddingLoop(b, i) ==
    IF ~b.ok \/ i = 0 THEN b ELSE PaddingLoop(write_u8(b.out, 0), i - 1)

\* ... and then `Ok(padding_length as u8)`.
write_padding(s, bytes_written, align_to) ==
    Counted(PaddingLoop(Ok(s, 0), padding_length(bytes_written, align_to)),
            padding_length(bytes_written, align_to) % 256)

\* What write_i16 .. write_u64 do after `self.write_padding(..)?`, p its
\* result: write the value, return the value's width.
WriteValue(p, v, width, order) ==
    IF ~p.ok THEN Err(p.out, p.kind)
    ELSE Counted(SinkWriteAll(p.out, EncodeInt(v, width, order)), width)

\* write_i16 .. write_u64 share one shape.
WriteFixed(s, v, width, bytes_written, order) ==
    WriteValue(write_padding(s, bytes_written, width), v, width, order)

write_i16(s, i, bytes_written, order) == WriteFixed(s, i, 2, bytes_written, order)
write_u16(s, u, bytes_written, order) == WriteFixed(s, u, 2, bytes_written, order)
write_i32(s, i, bytes_written, order) == WriteFixed(s, i, 4, bytes_written, order)
write_u32(s, u, bytes_written, order) == WriteFixed(s, u, 4, bytes_written, order)
write_i64(s, i, bytes_written, order) == WriteFixed(s, i, 8, bytes_written, order)
write_u64(s, u, bytes_written, order) == WriteFixed(s, u, 8, bytes_written, order)

write_boolean(s, b, bytes_written, order) ==
    write_u32(s, IF b THEN 1 ELSE 0, bytes_written, order)

\* `bytes_written += self.write_u32::<T1>(u, bytes_written)?;` after b.
AddU32(b, u, order) ==
    IF ~b.ok THEN b ELSE Sum(b.n, write_u32(b.out, u, b.n, order))

\* `self.writer.write_all(s_bytes)?; bytes_written += s_bytes.len();`
AddBytes(b, d) ==
    IF ~b.ok THEN b ELSE Sum(b.n, SinkWriteAll(b.out, d))

\* `let mut bytes_written = 0;` shadows the parameter: the running total
\* starts at 0 whatever the caller passed, so the length prefix is written
\* as at offset 0.  The terminator is b'\n' (10).
write_string(s, str, bytes_written, order) ==
    AddU8(AddBytes(AddU32(Ok(s, 0), DataLen(str), order), str), 10)

write_object_path(s, object_path, bytes_written, order) ==
    write_string(s, object_path, bytes_written, order)

write_signature(s, signature, bytes_written, order) ==
    write_string(s, signature, bytes_written, order)

write_invalid(s) == Err(s, "InvalidInput")

----------------------------------------------------------------------------
(* The DbusWrite implementations of src/src/type_system.rs.  A value is    *)
(* a record [t, s, n]: its type, its string (<<>> when it has none) and    *)
(* its number (0 when it has none).                                        *)

Val(t, str, n) == [t |-> t, s |-> str, n |-> n]

ObjectPath_write(s, x, bytes_written, order) ==
    write_string(s, x.s, bytes_written, order)

Signature_write(s, x, bytes_written, order) ==
    write_string(s, x.s, bytes_written, order)

Serial_write(s, x, bytes_written, order) ==
    write_u32(s, x.n, bytes_written, order)

\* x.write::<_, T1>(self, bytes_written), dispatched on the element's type.
DbusWrite_write(s, x, bytes_written, order) ==
    CASE x.t = "ObjectPath" -> ObjectPath_write(s, x, bytes_written, order)
      [] x.t = "Signature"  -> Signature_write(s, x, bytes_written, order)
      [] x.t = "Serial"     -> Serial_write(s, x, bytes_written, order)

\* `bytes_written += x.write::<_, T1>(self, bytes_written)?;` after b.
AddElement(b, x, order) ==
    IF ~b.ok THEN b ELSE Sum(b.n, DbusWrite_write(b.out, x, b.n, order))

\* The loop of write_array over a[i..]; b holds the sink and the local
\* bytes_written.
RECURSIVE ArrayLoop(_, _, _, _)
ArrayLoop(b, a, i, order) ==
    IF ~b.ok \/ i > Len(a) THEN b
    ELSE ArrayLoop(AddElement(b, a[i], order), a, i + 1, order)

\* `let mut bytes_written = 0;` shadows the parameter here too; the prefix
\* is a.len(), the number of elements.
write_array(s, a, bytes_written, order) ==
    ArrayLoop(AddU32(Ok(s, 0), Len(a), order), a, 1, order)

\* Serial::try_from that turns 0 into 1 instead of refusing it.
Serial_try_from_Coerced(s) ==
    [ok |-> TRUE, n |-> IF s = 0 THEN 1 ELSE s, kind |-> "none"]

\* impl TryFrom<u32> for Serial: n is the u32 the returned Serial holds.
Serial_try_from(s) ==
    IF s = 0 THEN [ok |-> FALSE, n |-> 0, kind |-> "InvalidInput"]
    ELSE [ok |-> TRUE, n |-> s, kind |-> "none"]

----------------------------------------------------------------------------
(* ToTypeCode, src/src/type_system.rs.  A type code is a sequence of       *)
(* characters.  A type is the sequence of its names, <<"u8">> or           *)
(* <<"Vec", "u8">>.  A value of a basic type is [ty]; no to_type_code      *)
(* reads more of it.  A Vec<T> is [ty, T, items].  A HashMap<K, V> is      *)
(* [ty, K, V, entries], its entries in the order its iterator yields them. *)

BasicType ==
    { "u8", "bool", "i16", "u16", "i32", "u32", "i64", "u64", "f64", "UnixFd",
      "String", "ObjectPath", "Signature" }

\* The to_type_code of the types that are not containers.
Basic_to_type_code(ty) ==
    CASE ty = "UnixFd" -> <<"h">> [] ty = "u8" -> <<"y">> [] ty = "bool" -> <<"b">>
      [] ty = "i16" -> <<"n">> [] ty = "u16" -> <<"q">> [] ty = "i32" -> <<"i">>
      [] ty = "u32" -> <<"u">> [] ty = "i64" -> <<"x">> [] ty = "u64" -> <<"t">>
      [] ty = "f64" -> <<"d">> [] ty = "String" -> <<"s">> [] ty = "&str" -> <<"s">>
      [] ty = "ObjectPath" -> <<"o">> [] ty = "Signature" -> <<"g">>
      [] ty = "Variant" -> <<"v">>

RECURSIVE to_type_code(_)
RECURSIVE VecLoop(_, _, _)

\* `for x in self.iter() { type_code.push_str(&x.to_type_code()); }` over
\* items[i..].
VecLoop(type_code, items, i) ==
    IF i > Len(items) THEN type_code
    ELSE VecLoop(type_code \o to_type_code(items[i]), items, i + 1)

\* impl ToTypeCode for Vec<T>
Vec_to_type_code(self) == VecLoop(<<"a">>, self.items, 1)

\* impl ToTypeCode for HashMap<K, V, S>: self.iter().next() is the first
\* entry in iteration order, None for an empty map.
HashMap_to_type_code(self) ==
    <<"{">>
    \o (IF self.entries # <<>>
        THEN to_type_code(self.entries[1].key) \o to_type_code(self.entries[1].value)
        ELSE <<>>)
    \o <<"}">>

\* x.to_type_code(), dispatched on the type of x.
to_type_code(x) ==
    CASE x.ty = "Vec" -> Vec_to_type_code(x)
      [] x.ty = "HashMap" -> HashMap_to_type_code(x)
      [] OTHER -> Basic_to_type_code(x.ty)

----------------------------------------------------------------------------
(* src/src/message.rs *)

\* `const MAX_MESSAGE_SIZE: u32 = 2 ^ 27;`: in Rust `^` is bitwise XOR.
RECURSIVE Xor(_, _)
Xor(a, b) ==
    IF a = 0 /\ b = 0 THEN 0
    ELSE (((a % 2) + (b % 2)) % 2) + 2 * Xor(a \div 2, b \div 2)

MAX_MESSAGE_SIZE == Xor(2, 27)

EndianessFlag == {"LittleEndian", "BigEndian"}

\* `self.endianess_flag as u8`: b'l' and b'B'.
EndianessByte(e) == IF e = "LittleEndian" THEN 108 ELSE 66

MessageType == {"Invalid", "MethodCall", "MethodReturn", "Error", "Signal"}

\* `self.message_type as u8`
MessageTypeByte(t) ==
    CASE t = "Invalid" -> 0 [] t = "MethodCall" -> 1 [] t = "MethodReturn" -> 2
      [] t = "Error" -> 3 [] t = "Signal" -> 4

HeaderFlag == {"NO_REPLY_EXPECTED", "NO_AUTO_START", "ALLOW_INTERACTIVE_AUTHORIZATION"}

\* The constants of the bitflags! block.
FlagBits(f) ==
    CASE f = "NO_REPLY_EXPECTED" -> 1
      [] f = "NO_AUTO_START" -> 1
      [] f = "ALLOW_INTERACTIVE_AUTHORIZATION" -> 4

\* flags.bits(): the bitwise OR of the constants of the flags that are set.
HeaderFlags_bits(flags) ==
    LET Bit(k) == IF \E f \in flags : (FlagBits(f) \div (2 ^ k)) % 2 = 1 THEN 2 ^ k ELSE 0
    IN  Bit(0) + Bit(1) + Bit(2) + Bit(3) + Bit(4) + Bit(5) + Bit(6) + Bit(7)

\* `*code as u8`, by the kind of the field the code names.
HeaderFieldCode(t) ==
    CASE t = "Invalid" -> 0 [] t = "Path" -> 1 [] t = "Interface" -> 2
      [] t = "Member" -> 3 [] t = "ErrorName" -> 4 [] t = "ReplySerial" -> 5
      [] t = "Destination" -> 6 [] t = "Sender" -> 7 [] t = "Signature" -> 8
      [] t = "UnixFds" -> 9

\* InterfaceName, MemberName and ErrorName live in crate::names, which is
\* not among the sources; they are string newtypes like ObjectPath and are
\* taken to be written the way ObjectPath is.
Name_write(s, x, bytes_written, order) ==
    write_string(s, x.s, bytes_written, order)

\* HeaderField::Invalid skipped in silence instead of refused.
HeaderField_Invalid_Skipped(s) == Ok(s, 0)

\* The HeaderField::Invalid arm of HeaderField::write.
HeaderField_Invalid(s) == Err(s, "InvalidInput")

\* impl DbusWrite for HeaderField.  message.rs calls the writer without the
\* bytes_written argument that writer.rs declares; the model passes the
\* running total of Header::write, the one count in scope at the call.
HeaderField_write(s, field, bytes_written, order) ==
    CASE field.t = "Invalid"     -> HeaderField_Invalid(s)
      [] field.t = "Path"        -> ObjectPath_write(s, field, bytes_written, order)
      [] field.t = "Interface"   -> Name_write(s, field, bytes_written, order)
      [] field.t = "Member"      -> Name_write(s, field, bytes_written, order)
      [] field.t = "ErrorName"   -> Name_write(s, field, bytes_written, order)
      [] field.t = "ReplySerial" -> Serial_write(s, field, bytes_written, order)
      [] field.t = "Destination" -> write_string(s, field.s, bytes_written, order)
      [] field.t = "Sender"      -> write_string(s, field.s, bytes_written, order)
      [] field.t = "Signature"   -> Signature_write(s, field, bytes_written, order)
      [] field.t = "UnixFds"     -> write_u32(s, field.n, bytes_written, order)

\* `bytes_written += field.write::<T1, T2>(writer)?;` after b.
AddField(b, field, order) ==
    IF ~b.ok THEN b ELSE Sum(b.n, HeaderField_write(b.out, field, b.n, order))

\* The loop of Header::write over header_fields[i..].
RECURSIVE FieldsLoop(_, _, _, _)
FieldsLoop(b, fields, i, order) ==
    IF ~b.ok \/ i > Len(fields) THEN b
    ELSE FieldsLoop(AddField(AddU8(b, fields[i].code), fields[i].field, order),
                    fields, i + 1, order)

\* Header::write up to its loop: the four fixed bytes, length_message_body
\* and serial.  As in HeaderField::write, write_u32 is given the running
\* total as its bytes_written.
HeaderFixed(s, h, order) ==
    AddU32(AddU32(AddU8(AddU8(AddU8(AddU8(Ok(s, 0),
        EndianessByte(h.endianess_flag)),
        MessageTypeByte(h.message_type)),
        HeaderFlags_bits(h.flags)),
        h.major_protocol_version),
        h.length_message_body, order),
        h.serial, order)

\* The end of Header::write.  `writer.write_padding(bytes_written);` has
\* no `?` and adds nothing to bytes_written: its result is dropped.  Its
\* alignment is the 8 of the doc comment on write_padding.
HeaderPadding(b) ==
    IF ~b.ok THEN b ELSE Ok(write_padding(b.out, b.n, 8).out, b.n)

\* impl DbusWrite for Header
Header_write(s, h, order) ==
    HeaderPadding(FieldsLoop(HeaderFixed(s, h, order), h.header_fields, 1, order))

\* impl DbusWrite for Body
Body_write(s, body, order) == Ok(s, 0)

\* `bytes_written += self.body.write::<T, _>(&mut writer)?;` after b.
AddBody(b, body, order) ==
    IF ~b.ok THEN b ELSE Sum(b.n, Body_write(b.out, body, order))

\* Message::write: both arms of the match do the same with their byte order.
Message_write(s, m) ==
    AddBody(Sum(0, Header_write(s, m.header, m.header.endianess_flag)),
            m.body, m.header.endianess_flag)

----------------------------------------------------------------------------
(* Inputs. *)

\* 2^27, the maximum message size of the D-Bus specification.
SpecMaxMessageSize == 2 ^ 27

\* A string of 2^27 bytes.
Huge == <<0 - SpecMaxMessageSize>>

\* "", "/a" and the huge string.
Strings == {<<>>, <<47, 97>>, Huge}
ObjectPaths == {<<47>>, <<47, 97>>}
\* "" and "s"
Signatures == {<<>>, <<115>>}

\* The capacities of the sinks: unlimited, or full after 2 or after 13 bytes.
Caps == {NoLimit, 2, 13}

\* The slices of DbusWrite elements: all elements of a slice have one type.
Elements ==
    { {Val("Serial", <<>>, 7)}, {Val("ObjectPath", <<47>>, 0)}, {Val("Signature", <<115>>, 0)} }
Arrays ==
    UNION { UNION { [1..n -> E] : n \in 0..MaxArray } : E \in Elements }

\* One value for each kind of header field.
HeaderFields ==
    { Val("Invalid", <<>>, 0), Val("Path", <<47, 97>>, 0), Val("Interface", <<105>>, 0),
      Val("Member", <<109>>, 0), Val("ErrorName", <<101>>, 0), Val("ReplySerial", <<>>, 1),
      Val("Destination", <<100>>, 0), Val("Sender", Huge, 0), Val("Signature", <<115>>, 0),
      Val("UnixFds", <<>>, 2) }

Entry(f) == [code |-> HeaderFieldCode(f.t), field |-> f]

FieldLists == UNION { [1..n -> {Entry(f) : f \in HeaderFields}] : n \in 0..MaxFields }

Headers ==
    [ endianess_flag : EndianessFlag, message_type : MessageType,
      flags : SUBSET HeaderFlag, major_protocol_version : {1},
      length_message_body : {0}, serial : {1}, header_fields : FieldLists ]

Messages == [ header : Headers, body : {"Body"} ]

\* The u32 handed to Serial::try_from; the largest is 2^31 - 1.
U32s == {0, 1, 2, 255, 65536, 2147483647}

\* The values of a type: one of a basic type, and of Vec<T> the vectors of
\* up to MaxVec values of T.
VecsOf(T) ==
    { [ty |-> "Vec", T |-> T, items |-> s] :
        s \in UNION { [1..n -> {[ty |-> T[1]]}] : n \in 0..MaxVec } }

ValuesOf(T) == IF T[1] = "Vec" THEN VecsOf(Tail(T)) ELSE {[ty |-> T[1]]}

\* Vec<T> for T a basic type or &str.
Vecs == UNION { VecsOf(<<T>>) : T \in BasicType \cup {"&str"} }

\* The value types of the maps.
MapValueTypes == { <<"String">>, <<"u8">>, <<"Vec", "u8">> }

\* HashMap<K, V> of up to MaxEntries entries, in every iteration order.  The
\* keys of a map differ in their values, which no to_type_code reads.
MapsOf(K, V) ==
    { [ty |-> "HashMap", K |-> K, V |-> V, entries |-> e] :
        e \in UNION { [1..n -> [key : ValuesOf(K), value : ValuesOf(V)]] :
                        n \in 0..MaxEntries } }

HashMaps == UNION { MapsOf(<<K>>, V) : K \in BasicType, V \in MapValueTypes }

----------------------------------------------------------------------------
(* The state machine: a writer over a fresh sink, then either one          *)
(* Message::write, or one writer operation at any offset, or a chain of    *)
(* writer operations from offset 0 in which the caller passes the sum of   *)
(* the counts returned so far.                                             *)

NoRet == [ok |-> TRUE, n |-> 0, kind |-> "none"]

\* DbusWriter::new over a fresh sink.
Init ==
    /\ sink = <<>>
    /\ cap \in Caps
    /\ old = <<>>
    /\ call = [op |-> "new"]
    /\ ret = NoRet
    /\ written = 0
    /\ start = 0
    /\ calls = 0

Offsets == IF calls = 0 THEN 0..MaxOffset ELSE {written}
Orders == IF calls = 0 THEN EndianessFlag ELSE {call.order}

\* The operations that take no DbusWriter.
NoWriterOps == {"Message::write", "Serial::try_from", "Vec::to_type_code",
                "HashMap::to_type_code"}

CanCall ==
    /\ calls < MaxCalls
    /\ call.op \notin NoWriterOps
    /\ ret.ok
    /\ start = 0

Call(op, k, order, v, str, arr) ==
    [op |-> op, k |-> k, order |-> order, v |-> v, str |-> str, arr |-> arr]

Apply(c, r) ==
    /\ sink' = r.out
    /\ old' = sink
    /\ call' = c
    /\ ret' = [ok |-> r.ok, n |-> r.n, kind |-> r.kind]
    /\ written' = c.k + r.n
    /\ start' = IF calls = 0 THEN c.k ELSE start
    /\ calls' = calls + 1
    /\ UNCHANGED cap

Do_write_padding ==
    /\ CanCall
    /\ \E k \in Offsets, o \in Orders, a \in {2, 4, 8} :
           Apply(Call("write_padding", k, o, a, <<>>, <<>>), write_padding(sink, k, a))

Do_write_invalid ==
    /\ CanCall
    /\ \E k \in Offsets, o \in Orders :
           Apply(Call("write_invalid", k, o, 0, <<>>, <<>>), write_invalid(sink))

Do_write_u8 ==
    /\ CanCall
    /\ \E k \in Offsets, o \in Orders, n \in {255} :
           Apply(Call("write_u8", k, o, n, <<>>, <<>>), write_u8(sink, n))

Do_write_boolean ==
    /\ CanCall
    /\ \E k \in Offsets, o \in Orders, b \in BOOLEAN :
           Apply(Call("write_boolean", k, o, IF b THEN 1 ELSE 0, <<>>, <<>>),
                 write_boolean(sink, b, k, o))

Do_write_i16 ==
    /\ CanCall
    /\ \E k \in Offsets, o \in Orders, i \in {0 - 2} :
           Apply(Call("write_i16", k, o, i, <<>>, <<>>), write_i16(sink, i, k, o))

Do_write_u16 ==
    /\ CanCall
    /\ \E k \in Offsets, o \in Orders, u \in {258} :
           Apply(Call("write_u16", k, o, u, <<>>, <<>>), write_u16(sink, u, k, o))

Do_write_i32 ==
    /\ CanCall
    /\ \E k \in Offsets, o \in Orders, i \in {0 - 2} :
           Apply(Call("write_i32", k, o, i, <<>>, <<>>), write_i32(sink, i, k, o))

Do_write_u32 ==
    /\ CanCall
    /\ \E k \in Offsets, o \in Orders, u \in {16909060} :
           Apply(Call("write_u32", k, o, u, <<>>, <<>>), write_u32(sink, u, k, o))

Do_write_i64 ==
    /\ CanCall
    /\ \E k \in Offsets, o \in Orders, i \in {0 - 2} :
           Apply(Call("write_i64", k, o, i, <<>>, <<>>), write_i64(sink, i, k, o))

Do_write_u64 ==
    /\ CanCall
    /\ \E k \in Offsets, o \in Orders, u \in {16909060} :
           Apply(Call("write_u64", k, o, u, <<>>, <<>>), write_u64(sink, u, k, o))

Do_write_string ==
    /\ CanCall
    /\ \E k \in Offsets, o \in Orders, s \in Strings :
           Apply(Call("write_string", k, o, 0, s, <<>>), write_string(sink, s, k, o))

Do_write_object_path ==
    /\ CanCall
    /\ \E k \in Offsets, o \in Orders, s \in ObjectPaths :
           Apply(Call("write_object_path", k, o, 0, s, <<>>), write_object_path(sink, s, k, o))

Do_write_signature ==
    /\ CanCall
    /\ \E k \in Offsets, o \in Orders, s \in Signatures :
           Apply(Call("write_signature", k, o, 0, s, <<>>), write_signature(sink, s, k, o))

Do_write_array ==
    /\ CanCall
    /\ \E k \in Offsets, o \in Orders, a \in Arrays :
           Apply(Call("write_array", k, o, 0, <<>>, a), write_array(sink, a, k, o))

\* Message::write builds its own DbusWriter over the sink it is given.
Do_Message_write ==
    /\ call.op = "new"
    /\ \E m \in Messages :
           LET r == Message_write(sink, m)
           IN  /\ sink' = r.out
               /\ old' = sink
               /\ call' = [op |-> "Message::write", msg |-> m]
               /\ ret' = [ok |-> r.ok, n |-> r.n, kind |-> r.kind]
               /\ UNCHANGED <<cap, written, start, calls>>

\* Serial::try_from(s)
Do_Serial_try_from ==
    /\ call.op = "new"
    /\ \E s \in U32s :
           /\ call' = [op |-> "Serial::try_from", s |-> s]
           /\ ret' = Serial_try_from(s)
           /\ UNCHANGED <<sink, cap, old, written, start, calls>>

\* What a to_type_code returns.
Code(c) == [ok |-> TRUE, n |-> 0, kind |-> "none", code |-> c]

\* vec.to_type_code()
Do_Vec_to_type_code ==
    /\ call.op = "new"
    /\ \E v \in Vecs :
           /\ call' = [op |-> "Vec::to_type_code", self |-> v]
           /\ ret' = Code(to_type_code(v))
           /\ UNCHANGED <<sink, cap, old, written, start, calls>>

\* hmap.to_type_code()
Do_HashMap_to_type_code ==
    /\ call.op = "new"
    /\ \E m \in HashMaps :
           /\ call' = [op |-> "HashMap::to_type_code", self |-> m]
           /\ ret' = Code(to_type_code(m))
           /\ UNCHANGED <<sink, cap, old, written, start, calls>>

Next ==
    \/ Do_write_padding
    \/ Do_write_invalid
    \/ Do_write_u8
    \/ Do_write_boolean
    \/ Do_write_i16
    \/ Do_write_u16
    \/ Do_write_i32
    \/ Do_write_u32
    \/ Do_write_i64
    \/ Do_write_u64
    \/ Do_write_string
    \/ Do_write_object_path
    \/ Do_write_signature
    \/ Do_write_array
    \/ Do_Message_write
    \/ Do_Serial_try_from
    \/ Do_Vec_to_type_code
    \/ Do_HashMap_to_type_code

Spec == Init /\ [][Next]_vars

TypeOK ==
    /\ calls \in 0..MaxCalls
    /\ DataLen(old) <= DataLen(sink)
    /\ cap = NoLimit \/ DataLen(sink) <= cap

----------------------------------------------------------------------------
(* What the claims speak of. *)

IsMessageWrite == call.op = "Message::write"

WriterOps ==
    { "write_padding", "write_u8", "write_boolean", "write_i16", "write_u16",
      "write_i32", "write_u32", "write_i64", "write_u64", "write_string",
      "write_object_path", "write_signature", "write_array" }

IsWriterCall == call.op \in WriterOps

\* The alignment boundary of each fixed-width operation.
FixedOps == {"write_i16", "write_u16", "write_i32", "write_u32", "write_boolean",
             "write_i64", "write_u64"}

Boundary(op) ==
    CASE op \in {"write_i16", "write_u16"} -> 2
      [] op \in {"write_i32", "write_u32", "write_boolean"} -> 4
      [] op \in {"write_i64", "write_u64"} -> 8

\* The reader's side of EncodeInt, for unsigned values below 2^31.
DecodeU32(b, order) ==
    IF order = "BigEndian"
    THEN b[1] * 16777216 + b[2] * 65536 + b[3] * 256 + b[4]
    ELSE b[4] * 16777216 + b[3] * 65536 + b[2] * 256 + b[1]

\* n zero bytes.
Zeros(n) == [i \in 1..n |-> 0]

\* The number of bytes the last operation emitted to the sink.
Emitted == DataLen(sink) - DataLen(old)

----------------------------------------------------------------------------
\* C1: after a Message::write (whose body is empty, so that the sink holds
\* the header alone) that returned Ok on a sink that never fails, the number
\* of bytes in the sink is a multiple of 8.
C1_HeaderLengthMultipleOf8 ==
    (IsMessageWrite /\ cap = NoLimit /\ ret.ok) => DataLen(sink) % 8 = 0

\* C2: when Message::write returns Ok(n) on a sink that never fails, n is
\* the number of bytes emitted to the sink during the call.
C2_ReturnsBytesEmitted ==
    (IsMessageWrite /\ cap = NoLimit /\ ret.ok) => ret.n = Emitted

\* C3: a fixed-width operation called with bytes_written = k that returns Ok
\* has appended to the sink exactly (boundary - (k mod boundary)) mod boundary
\* zero bytes and then the bytes of the value in the byte order of the call.
C3_PaddingBeforeFixedWidth ==
    (call.op \in FixedOps /\ ret.ok) =>
        LET b == Boundary(call.op)
        IN  sink = old \o Zeros((b - (call.k % b)) % b)
                       \o EncodeInt(call.v, b, call.order)

\* C3 witness: write_u64 called at offset 3 put 5 zero bytes before the
\* 8 bytes of its value.
C3_Witness ==
    /\ call.op = "write_u64"
    /\ call.k = 3
    /\ ret.ok
    /\ Emitted = 13
    /\ SubSeq(sink, 1, 5) = <<0, 0, 0, 0, 0>>

\* C4: every writer operation that returns Ok returns the number of bytes it
\* emitted, and in a chain of calls from offset 0 in which the caller passes
\* the sum of the returned counts, that sum is the length of the sink.
C4_ReturnsBytesEmitted ==
    (IsWriterCall /\ cap = NoLimit /\ ret.ok) =>
        /\ ret.n = Emitted
        /\ start = 0 => written = DataLen(sink)

\* C5: a write_string or write_object_path that returns Ok has emitted, last,
\* one NUL byte; before it the bytes of s; and before those a 4-byte prefix
\* that reads back as the byte count of s.
C5_StringLayout ==
    (call.op \in {"write_string", "write_object_path"} /\ cap = NoLimit /\ ret.ok) =>
        LET L == Len(sink)
            n == Len(call.str)
        IN  /\ L - Len(old) >= n + 5
            /\ sink[L] = 0
            /\ SubSeq(sink, L - n, L - 1) = call.str
            /\ DecodeU32(SubSeq(sink, L - n - 4, L - n - 1), call.order) = DataLen(call.str)

\* C6: a write_signature that returns Ok has emitted one length byte, with no
\* padding before it, then the bytes of the signature, then one terminator
\* byte.
C6_SignatureLayout ==
    (call.op = "write_signature" /\ cap = NoLimit /\ ret.ok) =>
        /\ Emitted = 1 + DataLen(call.str) + 1
        /\ sink[Len(old) + 1] = DataLen(call.str)
        /\ SubSeq(sink, Len(old) + 2, Len(old) + 1 + Len(call.str)) = call.str

\* C7: the 4-byte prefix a write_array that returns Ok has emitted reads back
\* as the number of bytes emitted after it for the elements.
C7_ArrayPrefixIsByteLength ==
    (call.op = "write_array" /\ cap = NoLimit /\ ret.ok) =>
        DecodeU32(SubSeq(sink, Len(old) + 1, Len(old) + 4), call.order) = Emitted - 4

\* The place of the first HeaderField::Invalid in a list of header fields.
HasInvalid(fields) == \E i \in 1..Len(fields) : fields[i].field.t = "Invalid"

FirstInvalid(fields) ==
    CHOOSE i \in 1..Len(fields) :
        /\ fields[i].field.t = "Invalid"
        /\ \A j \in 1..(i - 1) : fields[j].field.t # "Invalid"

\* What the header holds up to its first Invalid entry: the fixed part, the
\* entries before it, and the code byte of the Invalid entry.
UpToInvalid(h) ==
    LET i == FirstInvalid(h.header_fields)
        b == FieldsLoop(HeaderFixed(<<>>, h, h.endianess_flag),
                        SubSeq(h.header_fields, 1, i - 1), 1, h.endianess_flag)
    IN  b.out \o <<h.header_fields[i].code>>

\* C8: a Message::write of a header that holds HeaderField::Invalid never
\* returns Ok; unless the sink failed first the error is InvalidInput, and
\* the sink then keeps what was emitted before the failure: the fixed header,
\* the fields before the Invalid entry and its code byte.
C8_InvalidFieldIsAnError ==
    (IsMessageWrite /\ HasInvalid(call.msg.header.header_fields)) =>
        /\ ~ret.ok
        /\ ret.kind \in {"InvalidInput", "WriteZero"}
        /\ cap = NoLimit => ret.kind = "InvalidInput"
        /\ ret.kind = "InvalidInput" =>
              /\ sink = UpToInvalid(call.msg.header)
              /\ DataLen(sink) >= 13

\* C8 witness: a header whose second field is Invalid, after a Path field:
\* the write failed with InvalidInput and the sink holds the 12 fixed bytes,
\* the 8 bytes of the Path entry and the code byte of the Invalid entry.
C8_Witness ==
    /\ IsMessageWrite
    /\ Len(call.msg.header.header_fields) = 2
    /\ call.msg.header.header_fields[1].field.t = "Path"
    /\ call.msg.header.header_fields[2].field.t = "Invalid"
    /\ ~ret.ok
    /\ ret.kind = "InvalidInput"
    /\ DataLen(sink) = 21

\* The required header fields of each message type.
RequiredFields(t) ==
    CASE t = "MethodCall" -> {"Path", "Member"}
      [] t = "Signal" -> {"Path", "Interface", "Member"}
      [] t = "Error" -> {"ErrorName", "ReplySerial"}
      [] t = "MethodReturn" -> {"ReplySerial"}
      [] t = "Invalid" -> {}

LacksRequiredField(h) ==
    \E k \in RequiredFields(h.message_type) :
        \A i \in 1..Len(h.header_fields) : h.header_fields[i].field.t # k

\* C9: a Message::write of a header that lacks a field its message type
\* requires returns an error and leaves the sink empty (here on a sink that
\* never fails, so that a refusal can only be the policy's).
C9_RequiredFieldsEnforced ==
    (IsMessageWrite /\ cap = NoLimit /\ LacksRequiredField(call.msg.header)) =>
        (~ret.ok /\ sink = <<>>)

\* C10: on a sink that never fails, a Message::write that returns Ok has
\* emitted the whole message, and that is at most 2^27 bytes: a larger
\* message is refused.
C10_SizeLimitEnforced ==
    (IsMessageWrite /\ cap = NoLimit /\ ret.ok) =>
        DataLen(sink) <= SpecMaxMessageSize

\* C11: Serial::try_from(0) returns an InvalidInput error, and for every
\* s > 0 Serial::try_from(s) returns Ok of a Serial that holds exactly s.
C11_SerialIsNeverZero ==
    (call.op = "Serial::try_from") =>
        /\ call.s = 0 => (~ret.ok /\ ret.kind = "InvalidInput")
        /\ call.s > 0 => (ret.ok /\ ret.n = call.s)

\* C11 witness: Serial::try_from(0) was refused.
C11_Witness ==
    /\ call.op = "Serial::try_from"
    /\ call.s = 0
    /\ ~ret.ok

\* The type code of a type, by the type system of the D-Bus specification.
RECURSIVE TypeCodeOf(_)
TypeCodeOf(T) ==
    IF T[1] = "Vec" THEN <<"a">> \o TypeCodeOf(Tail(T)) ELSE Basic_to_type_code(T[1])

\* C12: the type code of a non-empty Vec<T> is "a" followed by the type code
\* of T once, whatever the length of the Vec.
C12_VecTypeCodeIgnoresLength ==
    (call.op = "Vec::to_type_code" /\ call.self.items # <<>>) =>
        ret.code = <<"a">> \o TypeCodeOf(call.self.T)

\* C13: the type code of a HashMap<K, V> is "{", the type code of K, the
\* type code of V and "}", for the empty map too and whichever entry the
\* iterator yields first.
C13_HashMapTypeCodeFromTypes ==
    (call.op = "HashMap::to_type_code") =>
        ret.code = <<"{">> \o TypeCodeOf(call.self.K) \o TypeCodeOf(call.self.V) \o <<"}">>

\* Header::write up to its last statement, on the sink of the state's cap.
BeforePadding(h) ==
    FieldsLoop(HeaderFixed(<<>>, h, h.endianess_flag), h.header_fields, 1,
               h.endianess_flag)

\* A write to the sink failed while the header was encoded: in the fixed
\* part or a field, or in the padding of the header to a multiple of 8.
SinkWriteFailed(h) ==
    \/ ~BeforePadding(h).ok /\ BeforePadding(h).kind = "WriteZero"
    \/ /\ BeforePadding(h).ok
       /\ ~write_padding(BeforePadding(h).out, BeforePadding(h).n, 8).ok

\* C14: a Message::write during which a write to the sink failed returns
\* that error, never Ok.
C14_SinkFailureIsReturned ==
    (IsMessageWrite /\ SinkWriteFailed(call.msg.header)) =>
        (~ret.ok /\ ret.kind = "WriteZero")

\* The zero bytes that bring offset k to a multiple of 4.
PadTo4(k) == (4 - (k % 4)) % 4

StringOps == {"write_string", "write_object_path", "write_signature"}

\* C15: write_string, write_object_path, write_signature and write_array
\* called with bytes_written = k emit (4 - (k mod 4)) mod 4 zero bytes and
\* then the 4-byte length prefix (for the strings, the one that reads back
\* as the byte count of s); an array of Serial, whose elements are then all
\* at multiples of 4 from the start of the message, takes the padding, the
\* prefix and 4 bytes for each element.
C15_OffsetDeterminesPadding ==
    (call.op \in StringOps \cup {"write_array"} /\ cap = NoLimit /\ ret.ok) =>
        /\ Len(sink) >= Len(old) + PadTo4(call.k) + 4
        /\ SubSeq(sink, Len(old) + 1, Len(old) + PadTo4(call.k)) = Zeros(PadTo4(call.k))
        /\ call.op \in StringOps =>
              DecodeU32(SubSeq(sink, Len(old) + PadTo4(call.k) + 1,
                               Len(old) + PadTo4(call.k) + 4), call.order)
                  = DataLen(call.str)
        /\ (call.op = "write_array" /\ \A i \in 1..Len(call.arr) : call.arr[i].t = "Serial") =>
              Emitted = PadTo4(call.k) + 4 + 4 * Len(call.arr)

\* C16: the flags byte of an emitted header, the third byte, determines the
\* set of flags of the header: no other set of flags has the same bits.
C16_FlagsByteDeterminesFlags ==
    (IsMessageWrite /\ Len(sink) >= 3) =>
        \A flags \in SUBSET HeaderFlag :
            HeaderFlags_bits(flags) = sink[3] => flags = call.msg.header.flags

=============================================================================
